---- MODULE Spec2Model ----
(***************************************************************************)
(* GridCollider of src/collision.py: the cell-indexed tile store (add,     *)
(* remove, __contains__), the static queries (collide_point, collide_pawn) *)
(* and the two lazy sweeps (collide_moving_point, collide_moving_pawn).    *)
(*                                                                         *)
(* Numbers.  The code computes with Python floats (IEEE binary64, round to *)
(* nearest even, gradual underflow).  A float is modelled by the integer   *)
(* number of quanta it holds: the value k stands for k / 2^FracBits, and   *)
(* only the k with at most MantBits significant bits are floats.  The      *)
(* arithmetic below rounds every result to such a k exactly as binary64    *)
(* does with 53 significant bits and the quantum 2^-1074; nextafter steps  *)
(* to the neighbouring float.  -0.0 is not distinguished from 0.0 (the     *)
(* code never divides by it and Python compares and hashes them equal).    *)
(***************************************************************************)
EXTENDS Integers, Sequences, FiniteSets, TLC

VARIABLES grid, tiles_seen, ret, live, gone, gen, out

vars == <<grid, tiles_seen, ret, live, gone, gen, out>>

----------------------------------------------------------------------------
(* Floats *)

MantBits == 14
FracBits == 20

\* 1.0 in quanta
Q == 2^FracBits

Abs(k) == IF k < 0 THEN -k ELSE k

RECURSIVE BitLen(_)
BitLen(n) == IF n = 0 THEN 0 ELSE 1 + BitLen(n \div 2)

RECURSIVE TrailingZeros(_)
TrailingZeros(n) == IF n % 2 = 1 THEN 0 ELSE 1 + TrailingZeros(n \div 2)

\* rounding of the quotient q with remainder r of a division by d, when q
\* has more than MantBits bits: m = the bits kept, rem = the bits dropped,
\* half = half a unit of the last place kept
RoundMant(m, rem, half, r, unit) ==
    IF rem > half \/ (rem = half /\ (r > 0 \/ m % 2 = 1))
    THEN (m + 1) * unit
    ELSE m * unit

RoundBits(q, r, e) == RoundMant(q \div (2^e), q % (2^e), 2^(e - 1), r, 2^e)

RoundQuot(q, r, d) ==
    IF BitLen(q) <= MantBits
    THEN IF 2 * r > d \/ (2 * r = d /\ q % 2 = 1) THEN q + 1 ELSE q
    ELSE RoundBits(q, r, BitLen(q) - MantBits)

\* the float nearest to n/d quanta (n >= 0, d > 0), ties to the even float
RoundRat(n, d) == RoundQuot(n \div d, n % d, d)

SRound(n, d) == (IF n >= 0 THEN 1 ELSE -1) * RoundRat(Abs(n), d)

\* a + b, a - b
FAdd(a, b) == SRound(a + b, 1)
FSub(a, b) == SRound(a - b, 1)

\* the float nearest to (n / d) * 2^e quanta
RoundScaled(n, d, e) ==
    RoundRat(n * (2^(IF e >= 0 THEN e ELSE 0)), d * (2^(IF e >= 0 THEN 0 ELSE -e)))

SignOf(a, b) == IF (a < 0) = (b < 0) THEN 1 ELSE -1

\* the odd part of k # 0
OddPart(k) == Abs(k) \div (2^TrailingZeros(Abs(k)))

\* a * b: the exact product of the two odd parts, scaled, then rounded
FMul(a, b) ==
    IF a = 0 \/ b = 0 THEN 0
    ELSE SignOf(a, b) * RoundScaled(OddPart(a) * OddPart(b), 1,
             TrailingZeros(Abs(a)) + TrailingZeros(Abs(b)) - FracBits)

\* a / b (b # 0)
FDiv(a, b) ==
    IF a = 0 THEN 0
    ELSE SignOf(a, b) * RoundScaled(OddPart(a), OddPart(b),
             TrailingZeros(Abs(a)) + FracBits - TrailingZeros(Abs(b)))

\* the next float above a >= 0, and the next float below a > 0
FloatAbove(a) == a + 2^(IF BitLen(a) > MantBits THEN BitLen(a) - MantBits ELSE 0)

FloatBelowBits(a, L) ==
    IF L - 1 >= MantBits /\ a = 2^(L - 1)
    THEN a - 2^(L - 1 - MantBits)
    ELSE a - 2^(IF L > MantBits THEN L - MantBits ELSE 0)

FloatBelow(a) == FloatBelowBits(a, BitLen(a))

\* math.nextafter(x, towards), towards = +1 for inf and -1 for -inf
nextafter(x, towards) ==
    IF towards > 0
    THEN IF x >= 0 THEN FloatAbove(x) ELSE -FloatBelow(-x)
    ELSE IF x > 0 THEN FloatBelow(x) ELSE -FloatAbove(-x)

\* math.modf(x) = (fractional, integer), both with the sign of x
modf_integer(x)    == IF x >= 0 THEN (x \div Q) * Q ELSE -(((-x) \div Q) * Q)
modf_fractional(x) == x - modf_integer(x)

\* math.ceil(x), a Python int
ceil(x) == -((-x) \div Q)

\* vec2 arithmetic
VAdd(a, b)   == <<FAdd(a[1], b[1]), FAdd(a[2], b[2])>>
VScale(a, k) == <<FMul(a[1], k), FMul(a[2], k)>>
Vec(x4, y4)  == <<x4 * (Q \div 4), y4 * (Q \div 4)>>

----------------------------------------------------------------------------
(* Tiles and the grid *)

\* the level: main.py builds GridCollider(map_size + (2, 2), origin=(-1, -1))
MapWidth  == 22
MapHeight == 21

size        == <<(MapWidth + 2) * Q, (MapHeight + 2) * Q>>
upper_left  == <<-Q, -Q>>
lower_right == VAdd(upper_left, size)

\* Tile objects (identity-hashed, as the Blocks of main.py) and their .pos,
\* in quarter units.  "mon1" and "mon2" share the cell of "t15_20" (a Monster
\* standing in a block's cell), "frac" has a fractional position, "far"
\* lies beyond the grid's size and "below" lies before the grid's origin.
ScenarioTiles == {"t15_20", "t16_20", "t17_20", "t15_21", "t16_21", "t17_21"}
OriginTiles   == {"t0_0", "tm1_m1"}
StoreTiles    == {"t15_20", "mon1", "mon2", "t16_20", "tm1_m1", "frac", "far"}
LifeTiles     == {"t15_20", "mon1", "frac", "below"}
Tiles         == ScenarioTiles \cup OriginTiles \cup StoreTiles \cup LifeTiles

tile_pos(tile) ==
    CASE tile = "t15_20" -> Vec(60, 80)
      [] tile = "t16_20" -> Vec(64, 80)
      [] tile = "t17_20" -> Vec(68, 80)
      [] tile = "t15_21" -> Vec(60, 84)
      [] tile = "t16_21" -> Vec(64, 84)
      [] tile = "t17_21" -> Vec(68, 84)
      [] tile = "t0_0"   -> Vec(0, 0)
      [] tile = "tm1_m1" -> Vec(-4, -4)
      [] tile = "mon1"   -> Vec(60, 80)
      [] tile = "mon2"   -> Vec(60, 80)
      [] tile = "frac"   -> Vec(66, 80)
      [] tile = "below"  -> Vec(-8, -8)
      [] tile = "far"    -> <<size[1] + Q, 20 * Q>>

\* self.grid = defaultdict(tuple): every key maps to a tuple of tiles, () by
\* default.  The model keeps the keys some tile can be stored under; any
\* other key reads as ().
Keys == {tile_pos(tile) : tile \in Tiles}

EmptyGrid == [k \in Keys |-> <<>>]

grid_get(g, key) == IF key \in DOMAIN g THEN g[key] ELSE <<>>

InSeq(x, s) == \E i \in 1..Len(s) : s[i] = x

\* tuple.index(x) + 1, for x in s
IndexOf(x, s) == CHOOSE i \in 1..Len(s) : s[i] = x /\ \A j \in 1..(i - 1) : s[j] # x

\* add without its test of tiles_seen (lines 91-92)
add_raises_unchecked(seen, tile) ==
    IF tile_pos(tile)[1] > size[1] \/ tile_pos(tile)[2] > size[2] THEN "OutOfBounds"
    ELSE ""

\* add(tile): the exception it raises, "" for none
add_raises(seen, tile) ==
    IF tile \in seen THEN "DuplicateTile"
    ELSE IF tile_pos(tile)[1] > size[1] \/ tile_pos(tile)[2] > size[2] THEN "OutOfBounds"
    ELSE ""

\* add that forgets to record the tile (line 93)
add_tiles_seen_forgotten(seen, tile) == seen

\* add(tile): tiles_seen when the call ends (by return or by raise)
add_tiles_seen(seen, tile) == IF tile \in seen THEN seen ELSE seen \cup {tile}

\* add(tile): self.grid when the call ends
add_grid(g, seen, tile) ==
    IF add_raises(seen, tile) # "" THEN g
    ELSE [g EXCEPT ![tile_pos(tile)] = Append(@, tile)]

\* remove(tile): value[0:index] + value[index + 1:-1]
remove_new_value(value, tile) ==
    LET index == IndexOf(tile, value)
    IN  SubSeq(value, 1, index - 1) \o SubSeq(value, index + 1, Len(value) - 1)

\* remove(tile): the exception it raises, "" for none
remove_raises(g, seen, tile) ==
    IF tile \notin seen THEN "UnknownTile"
    ELSE IF ~InSeq(tile, grid_get(g, tile_pos(tile))) THEN "ValueError"
    ELSE IF InSeq(tile, remove_new_value(grid_get(g, tile_pos(tile)), tile)) THEN "AssertionError"
    ELSE ""

\* remove(tile): self.grid when the call ends
remove_grid(g, seen, tile) ==
    IF remove_raises(g, seen, tile) # "" THEN g
    ELSE [g EXCEPT ![tile_pos(tile)] = remove_new_value(@, tile)]

\* remove(tile): tiles_seen when the call ends (the method never touches it)
remove_tiles_seen(seen, tile) == seen

\* tile in grid: result, result2 and the assertion between them
contains_result(g, seen, tile) ==
    LET result  == tile \in seen
        result2 == InSeq(tile, grid_get(g, tile_pos(tile)))
    IN  IF result = result2 THEN [raises |-> "", value |-> result]
        ELSE [raises |-> "AssertionError", value |-> FALSE]

----------------------------------------------------------------------------
(* Static queries *)

RECURSIVE Flatten(_)
Flatten(ss) == IF ss = <<>> THEN <<>> ELSE Head(ss) \o Flatten(Tail(ss))

ToSet(s) == {s[i] : i \in 1..Len(s)}

\* tuple(a_set): some order of the set's elements
RECURSIVE SetToSeq(_)
SetToSeq(S) == IF S = {} THEN <<>>
               ELSE LET x == CHOOSE x \in S : TRUE IN <<x>> \o SetToSeq(S \ {x})

\* collide_point(pos)
collide_point(g, pos) == grid_get(g, <<modf_integer(pos[1]), modf_integer(pos[2])>>)

\* collide_pawn: pos_cell_coord
pos_cell_coord(pos) ==
    <<IF pos[1] < 0 THEN FSub(modf_integer(pos[1]), Q) ELSE modf_integer(pos[1]),
      IF pos[2] < 0 THEN FSub(modf_integer(pos[2]), Q) ELSE modf_integer(pos[2])>>

\* x_aligned, y_aligned: the fractional part of the coordinate is zero
aligned(coord) == modf_fractional(coord) = 0

\* collide_pawn: which of its three code paths a query takes
collide_pawn_path(psize, pos) ==
    IF psize[1] <= Q /\ psize[2] <= Q /\ aligned(pos[1]) /\ aligned(pos[2]) THEN "fast"
    ELSE IF psize[1] = Q /\ psize[2] = Q THEN "1x1"
    ELSE "general"

\* the (m x n) block of cells of the non-optimized path, row by row
cell_block(base, nx, ny) ==
    IF nx <= 0 \/ ny <= 0 THEN <<>>
    ELSE [i \in 1..(nx * ny) |->
             VAdd(base, <<((i - 1) % nx) * Q, ((i - 1) \div nx) * Q>>)]

\* cells_of_path with the 1x1 path's diagonal lookup (lines 278-282) forgotten
cells_of_path_no_diagonal(path, base, x_aligned, y_aligned, psize) ==
    IF path = "fast" THEN <<base>>
    ELSE IF path = "1x1"
    THEN <<base>>
         \o (IF ~x_aligned THEN <<VAdd(base, <<Q, 0>>)>> ELSE <<>>)
         \o (IF ~y_aligned THEN <<VAdd(base, <<0, Q>>)>> ELSE <<>>)
    ELSE cell_block(base, ceil(psize[1]) + (IF x_aligned THEN 0 ELSE 1),
                          ceil(psize[2]) + (IF y_aligned THEN 0 ELSE 1))

\* the cells a path looks up from pos_cell_coord = base, in the order of the
\* lookups
cells_of_path(path, base, x_aligned, y_aligned, psize) ==
    IF path = "fast" THEN <<base>>
    ELSE IF path = "1x1"
    THEN <<base>>
         \o (IF ~x_aligned THEN <<VAdd(base, <<Q, 0>>)>> ELSE <<>>)
         \o (IF ~y_aligned THEN <<VAdd(base, <<0, Q>>)>> ELSE <<>>)
         \o (IF ~y_aligned /\ ~x_aligned THEN <<VAdd(base, <<Q, Q>>)>> ELSE <<>>)
    ELSE cell_block(base, ceil(psize[1]) + (IF x_aligned THEN 0 ELSE 1),
                          ceil(psize[2]) + (IF y_aligned THEN 0 ELSE 1))

\* collide_pawn: the cells it looks up
collide_pawn_cells(psize, pos) ==
    cells_of_path(collide_pawn_path(psize, pos), pos_cell_coord(pos),
                  aligned(pos[1]), aligned(pos[2]), psize)

\* the non-empty tuples found in the cells, flattened
lookup(g, cells) == Flatten([i \in 1..Len(cells) |-> grid_get(g, cells[i])])

\* what collide_pawn returns: none = the result is None; tiles = the tuple
\* (fast path, possibly empty) or the flattened list (other paths)
pawn_result(path, tiles) ==
    IF path = "fast" THEN [none |-> FALSE, tiles |-> tiles]
    ELSE IF tiles = <<>> THEN [none |-> TRUE, tiles |-> <<>>]
    ELSE [none |-> FALSE, tiles |-> tiles]

\* collide_pawn(pawn, pos)
collide_pawn(g, psize, pos) ==
    pawn_result(collide_pawn_path(psize, pos), lookup(g, collide_pawn_cells(psize, pos)))

----------------------------------------------------------------------------
(* collide_moving_pawn *)

\* line 509 asserts abs(axis_pos_at_time_t - next_axis_pos) < 0.000001, a
\* tolerance far above a binary64's rounding error at the grid's coordinates
\* and far below the size of a cell.  The model float rounds at 2^-9 there,
\* so the model's tolerance keeps that place between the two: 2^-4.
Tolerance == Q \div 16

None == <<>>
Some(v) == <<v>>

Sign(scalar_delta) == IF scalar_delta > 0 THEN 1 ELSE -1

\* the two coord_to_cell (moving right/down, moving left/up)
coord_to_cell(sign, coord) ==
    IF sign > 0
    THEN IF modf_fractional(coord) # 0 THEN modf_integer(coord)
         ELSE FSub(modf_integer(coord), Q)
    ELSE IF coord < 0 /\ modf_fractional(coord) # 0 THEN FSub(modf_integer(coord), Q)
         ELSE modf_integer(coord)

\* the two first_value_in_next_cell
first_value_in_next_cell(sign, coord) ==
    IF sign > 0
    THEN nextafter(IF modf_fractional(coord) # 0 THEN FAdd(modf_integer(coord), Q)
                   ELSE modf_integer(coord), 1)
    ELSE nextafter(IF coord < 0 /\ modf_fractional(coord) # 0 THEN FSub(modf_integer(coord), Q)
                   ELSE modf_integer(coord), -1)

\* "assert coord >= 0" of the moving right/down versions
coord_assert_fails(sign, coord) == sign > 0 /\ coord < 0

Attr(v, attr) == IF attr = "x" THEN v[1] ELSE v[2]

\* the start argument of check_moving_pawn_along_one_coordinate (lines 546-558)
axis_start(g, attr) ==
    IF Attr(g.delta, attr) >= 0 THEN Attr(VAdd(g.pos, g.size), attr) ELSE Attr(g.pos, attr)

NewAxis == [st |-> "new", axis_pos |-> 0, next_cell |-> 0, next_pos_cell |-> 0]

AxisEnd(it)    == [it |-> [it EXCEPT !.st = "end"], ev |-> None, raises |-> ""]
AxisRaise(it)  == [it |-> [it EXCEPT !.st = "end"], ev |-> None, raises |-> "AssertionError"]

\* lines 530-533
replace_coord(attr, new_pos, desired) ==
    IF attr = "x" THEN <<desired, new_pos[2]>> ELSE <<new_pos[1], desired>>

\* lines 526-533: the coordinate of the axis is replaced when new_pos is not
\* in the expected cell
hack_pos(attr, sign, it, new_pos) ==
    IF coord_to_cell(sign, Attr(new_pos, attr)) # it.next_pos_cell
    THEN replace_coord(attr, new_pos, first_value_in_next_cell(sign, Attr(new_pos, attr)))
    ELSE new_pos

\* the position an axis reports at time t (lines 516-533)
axis_new_pos(g, attr, sign, it, t) ==
    hack_pos(attr, sign, it, VAdd(g.pos, VScale(g.delta, t)))

\* lines 542-544
axis_advance(it, sign) ==
    [st            |-> "run",
     axis_pos      |-> FAdd(it.axis_pos, sign * Q),
     next_cell     |-> FAdd(it.next_cell, sign * Q),
     next_pos_cell |-> FAdd(it.next_pos_cell, sign * Q)]

\* next(check_moving_pawn_along_one_coordinate(start, scalar_delta, attr)):
\* runs the generator to its next yield (ev = the event), to its end or to
\* a failing assertion.  The inner "tries" loop always leaves at its first
\* pass (line 534), so sys.exit is never reached.  The operators before it
\* are the stretches of its body, each handing on the values computed so far.
RECURSIVE check_moving_pawn_along_one_coordinate(_, _, _, _)

\* lines 538-544
axis_yield(gr, g, attr, after, t, new_pos, hits) ==
    IF hits.tiles # <<>>
    THEN [it |-> after, ev |-> Some([t |-> t, pos |-> new_pos, hits |-> hits.tiles]),
          raises |-> ""]
    ELSE check_moving_pawn_along_one_coordinate(gr, g, attr, after)

\* line 536
axis_query(gr, g, attr, it, sign, t, new_pos) ==
    axis_yield(gr, g, attr, axis_advance(it, sign), t, new_pos,
               collide_pawn(gr, g.size, new_pos))

\* lines 508-534
axis_at_time(gr, g, attr, it, sign, start, scalar_delta, next_axis_pos, t) ==
    IF ~(Abs(FSub(FAdd(start, FMul(scalar_delta, t)), next_axis_pos)) < Tolerance)
    THEN AxisRaise(it)
    ELSE IF t > Q THEN AxisEnd(it)
    ELSE IF coord_assert_fails(sign, Attr(VAdd(g.pos, VScale(g.delta, t)), attr))
    THEN AxisRaise(it)
    ELSE axis_query(gr, g, attr, it, sign, t, axis_new_pos(g, attr, sign, it, t))

\* lines 495-506
axis_crossing(gr, g, attr, it, sign, start, scalar_delta, next_axis_pos) ==
    IF coord_assert_fails(sign, next_axis_pos)
       \/ coord_to_cell(sign, next_axis_pos) # it.next_cell
    THEN AxisRaise(it)
    ELSE axis_at_time(gr, g, attr, it, sign, start, scalar_delta, next_axis_pos,
                      FDiv(FSub(next_axis_pos, start), scalar_delta))

\* lines 492-493
axis_run(gr, g, attr, it, sign, start, scalar_delta) ==
    IF coord_assert_fails(sign, it.axis_pos) THEN AxisRaise(it)
    ELSE axis_crossing(gr, g, attr, it, sign, start, scalar_delta,
                       first_value_in_next_cell(sign, it.axis_pos))

\* lines 406-489
axis_first(gr, g, attr, it, sign, start, scalar_delta) ==
    IF scalar_delta = 0 THEN AxisEnd(it)
    ELSE IF coord_assert_fails(sign, start) \/ coord_assert_fails(sign, Attr(g.pos, attr))
    THEN AxisRaise(it)
    ELSE check_moving_pawn_along_one_coordinate(gr, g, attr,
             [st            |-> "run",
              axis_pos      |-> start,
              next_cell     |-> FAdd(coord_to_cell(sign, start), sign * Q),
              next_pos_cell |-> FAdd(coord_to_cell(sign, Attr(g.pos, attr)), sign * Q)])

axis_resume(gr, g, attr, it, start, scalar_delta) ==
    IF it.st = "end" THEN AxisEnd(it)
    ELSE IF it.st = "new"
    THEN axis_first(gr, g, attr, it, Sign(scalar_delta), start, scalar_delta)
    ELSE axis_run(gr, g, attr, it, Sign(scalar_delta), start, scalar_delta)

check_moving_pawn_along_one_coordinate(gr, g, attr, it) ==
    axis_resume(gr, g, attr, it, axis_start(g, attr), Attr(g.delta, attr))

\* the merge with the comparison of the two pending times reversed
merge_pick_latest(x, y) ==
    IF x # None /\ y # None
    THEN IF x[1].t > y[1].t
         THEN [raises |-> "", value |-> x[1], x |-> None, y |-> y]
         ELSE [raises |-> "", value |-> y[1], x |-> x, y |-> None]
    ELSE IF x # None
    THEN [raises |-> "", value |-> x[1], x |-> None, y |-> y]
    ELSE [raises |-> "", value |-> y[1], x |-> x, y |-> None]

\* the merge of lines 578-598: the event to consider next and what stays
\* pending, for pending events x and y of which at least one is there
merge_pick(x, y) ==
    IF x # None /\ y # None
    THEN IF x[1].t = y[1].t
         THEN IF x[1].pos # y[1].pos
              THEN [raises |-> "AssertionError", value |-> x[1], x |-> x, y |-> y]
              ELSE [raises |-> "",
                    value  |-> [t    |-> x[1].t,
                                pos  |-> x[1].pos,
                                hits |-> SetToSeq(ToSet(x[1].hits) \cup ToSet(y[1].hits))],
                    x |-> None, y |-> None]
         ELSE IF x[1].t < y[1].t
         THEN [raises |-> "", value |-> x[1], x |-> None, y |-> y]
         ELSE [raises |-> "", value |-> y[1], x |-> x, y |-> None]
    ELSE IF x # None
    THEN [raises |-> "", value |-> x[1], x |-> None, y |-> y]
    ELSE [raises |-> "", value |-> y[1], x |-> x, y |-> None]

\* "cull redundant results", lines 600-605
should_yield(previous, value) ==
    previous = None \/ ToSet(value.hits) # ToSet(previous[1].hits)

\* lines 564-575: x (or y) when the loop has asked its iterator for it
pull_axis(gr, g, attr, it, pending) ==
    IF pending = None
    THEN check_moving_pawn_along_one_coordinate(gr, g, attr, it)
    ELSE [it |-> it, ev |-> pending, raises |-> ""]

\* the while loop of lines 563-608, run to its next yield, to the return or
\* to a failing assertion.  previous is assigned when the generator is
\* resumed after the yield (line 608); nothing can observe it in between.
RECURSIVE moving_pawn_loop(_, _)

\* lines 600-608
loop_yield(gr, g2, m) ==
    IF m.raises # ""
    THEN [g |-> [g2 EXCEPT !.pc = "failed", !.raises = m.raises], ev |-> None]
    ELSE IF should_yield(g2.previous, m.value)
    THEN [g |-> [g2 EXCEPT !.previous = Some(m.value)], ev |-> Some(m.value)]
    ELSE moving_pawn_loop(gr, g2)

\* lines 578-598
loop_merge(gr, g, rx, ry, m) ==
    loop_yield(gr, [g EXCEPT !.xit = rx.it, !.yit = ry.it, !.x = m.x, !.y = m.y], m)

\* lines 564-577
loop_step(gr, g, rx, ry) ==
    IF rx.raises # ""
    THEN [g  |-> [g EXCEPT !.pc = "failed", !.raises = rx.raises, !.xit = rx.it],
          ev |-> None]
    ELSE IF ry.raises # ""
    THEN [g  |-> [g EXCEPT !.pc = "failed", !.raises = ry.raises,
                           !.xit = rx.it, !.x = rx.ev, !.yit = ry.it],
          ev |-> None]
    ELSE IF rx.ev = None /\ ry.ev = None
    THEN [g  |-> [g EXCEPT !.pc = "done", !.xit = rx.it, !.yit = ry.it], ev |-> None]
    ELSE loop_merge(gr, g, rx, ry, merge_pick(rx.ev, ry.ev))

moving_pawn_loop(gr, g) ==
    loop_step(gr, g, pull_axis(gr, g, "x", g.xit, g.x), pull_axis(gr, g, "y", g.yit, g.y))

\* lines 350-355: the test at time t = 0
start_event(gr, g, hits) ==
    IF hits.tiles # <<>>
    THEN [g  |-> [g EXCEPT !.pc = "loop"],
          ev |-> Some([t |-> 0, pos |-> g.pos, hits |-> hits.tiles])]
    ELSE moving_pawn_loop(gr, [g EXCEPT !.pc = "loop"])

\* next() on the generator collide_moving_pawn(pawn, delta, pos=pos)
collide_moving_pawn(gr, g) ==
    IF g.pc = "t0"
    THEN start_event(gr, g, collide_pawn(gr, g.size, g.pos))
    ELSE moving_pawn_loop(gr, g)

----------------------------------------------------------------------------
(* collide_moving_point *)

NewPointAxis == [st |-> "new", coord |-> 0]

\* lines 152-162
point_crossing(start, delta, yield_value, it, coord, t) ==
    IF t > Q THEN [it |-> [it EXCEPT !.st = "end"], ev |-> None, raises |-> ""]
    ELSE IF ~(FAdd(start, FMul(delta, t)) >= coord)
    THEN [it |-> [it EXCEPT !.st = "end"], ev |-> None, raises |-> "AssertionError"]
    ELSE [it |-> [st |-> "run", coord |-> coord],
          ev |-> Some([t |-> t, d |-> yield_value]), raises |-> ""]

\* lines 147-151
point_next_coord(start, delta, yield_value, it, coord) ==
    point_crossing(start, delta, yield_value, it, coord, FDiv(FSub(coord, start), delta))

\* an axis generator that reports a crossing at t = 1 when its delta is zero
t_and_aligned_coord_tuples_zero_crossing(start, delta, yield_value, it) ==
    IF it.st = "end" THEN [it |-> it, ev |-> None, raises |-> ""]
    ELSE IF it.st = "new"
    THEN [it |-> [st |-> "first", coord |-> modf_integer(start)],
          ev |-> Some([t |-> 0, d |-> <<0, 0>>]), raises |-> ""]
    ELSE IF delta = 0
    THEN [it |-> [it EXCEPT !.st = "end"], ev |-> Some([t |-> Q, d |-> yield_value]),
          raises |-> ""]
    ELSE point_next_coord(start, delta, yield_value, it, FAdd(it.coord, Sign(delta) * Q))

\* next(t_and_aligned_coord_tuples(start, delta, yield_value))
t_and_aligned_coord_tuples(start, delta, yield_value, it) ==
    IF it.st = "end" THEN [it |-> it, ev |-> None, raises |-> ""]
    ELSE IF it.st = "new"
    THEN [it |-> [st |-> "first", coord |-> modf_integer(start)],
          ev |-> Some([t |-> 0, d |-> <<0, 0>>]), raises |-> ""]
    ELSE IF delta = 0 THEN [it |-> [it EXCEPT !.st = "end"], ev |-> None, raises |-> ""]
    ELSE point_next_coord(start, delta, yield_value, it, FAdd(it.coord, Sign(delta) * Q))

\* a merge that never combines: of two crossings at the same t, x goes first
point_merge_pick_one_by_one(x, y) ==
    IF x # None /\ y # None
    THEN IF x[1].t <= y[1].t
         THEN [value |-> x[1], x |-> None, y |-> y]
         ELSE [value |-> y[1], x |-> x, y |-> None]
    ELSE IF x # None
    THEN [value |-> x[1], x |-> None, y |-> y]
    ELSE [value |-> y[1], x |-> x, y |-> None]

\* the merge of lines 186-204
point_merge_pick(x, y) ==
    IF x # None /\ y # None
    THEN IF x[1].t = y[1].t
         THEN [value |-> [t |-> x[1].t, d |-> VAdd(x[1].d, y[1].d)], x |-> None, y |-> None]
         ELSE IF x[1].t < y[1].t
         THEN [value |-> x[1], x |-> None, y |-> y]
         ELSE [value |-> y[1], x |-> x, y |-> None]
    ELSE IF x # None
    THEN [value |-> x[1], x |-> None, y |-> y]
    ELSE [value |-> y[1], x |-> x, y |-> None]

\* lines 172-183: x (or y) when the loop has asked its iterator for it
pull_point_axis(start, delta, yield_value, it, pending) ==
    IF pending = None
    THEN t_and_aligned_coord_tuples(start, delta, yield_value, it)
    ELSE [it |-> it, ev |-> pending, raises |-> ""]

\* next() on the generator collide_moving_point(pos, delta): the while loop
\* of lines 171-211 run to its next yield, to a return or to a failing
\* assertion
RECURSIVE collide_moving_point(_, _)

\* lines 208-211
point_emit(gr, g2, t, hits) ==
    IF hits # <<>>
    THEN [g  |-> g2,
          ev |-> Some([t    |-> t,
                       pos  |-> VAdd(g2.pos, VScale(g2.delta, t)),
                       hits |-> hits])]
    ELSE collide_moving_point(gr, g2)

\* lines 206-208
point_move(gr, g, rx, ry, m, cell_pos) ==
    point_emit(gr,
               [g EXCEPT !.pc = "loop", !.xit = rx.it, !.yit = ry.it,
                         !.x = m.x, !.y = m.y, !.cell_pos = cell_pos],
               m.value.t, grid_get(gr, cell_pos))

\* lines 172-207
point_step(gr, g, rx, ry, m) ==
    IF rx.raises # ""
    THEN [g  |-> [g EXCEPT !.pc = "failed", !.raises = rx.raises, !.xit = rx.it],
          ev |-> None]
    ELSE IF ry.raises # ""
    THEN [g  |-> [g EXCEPT !.pc = "failed", !.raises = ry.raises,
                           !.xit = rx.it, !.x = rx.ev, !.yit = ry.it],
          ev |-> None]
    ELSE IF rx.ev = None /\ ry.ev = None
    THEN [g  |-> [g EXCEPT !.pc = "done", !.xit = rx.it, !.yit = ry.it], ev |-> None]
    ELSE point_move(gr, g, rx, ry, m, VAdd(g.cell_pos, m.value.d))

point_pulled(gr, g, rx, ry) ==
    point_step(gr, g, rx, ry, point_merge_pick(rx.ev, ry.ev))

collide_moving_point(gr, g) ==
    point_pulled(gr, g,
                 pull_point_axis(g.pos[1], g.delta[1], <<Q, 0>>, g.xit, g.x),
                 pull_point_axis(g.pos[2], g.delta[2], <<0, Q>>, g.yit, g.y))

NoCall == [op |-> "none", tile |-> "", raises |-> "", value |-> FALSE]
NoGen  == [kind |-> "none"]

\* live: the tiles whose last completed call was an add that returned;
\* gone: the tiles whose last completed call was a remove that returned.
Add(tile) ==
    /\ tiles_seen' = add_tiles_seen(tiles_seen, tile)
    /\ grid' = add_grid(grid, tiles_seen, tile)
    /\ ret' = [op |-> "add", tile |-> tile, raises |-> add_raises(tiles_seen, tile), value |-> FALSE]
    /\ live' = IF add_raises(tiles_seen, tile) = "" THEN live \cup {tile} ELSE live
    /\ gone' = IF add_raises(tiles_seen, tile) = "" THEN gone \ {tile} ELSE gone
    /\ UNCHANGED <<gen, out>>

Remove(tile) ==
    /\ tiles_seen' = remove_tiles_seen(tiles_seen, tile)
    /\ grid' = remove_grid(grid, tiles_seen, tile)
    /\ ret' = [op |-> "remove", tile |-> tile, raises |-> remove_raises(grid, tiles_seen, tile), value |-> FALSE]
    /\ live' = IF remove_raises(grid, tiles_seen, tile) = "" THEN live \ {tile} ELSE live
    /\ gone' = IF remove_raises(grid, tiles_seen, tile) = "" THEN gone \cup {tile} ELSE gone
    /\ UNCHANGED <<gen, out>>

Contains(tile) ==
    /\ ret' = [op |-> "contains", tile |-> tile] @@ contains_result(grid, tiles_seen, tile)
    /\ UNCHANGED <<grid, tiles_seen, live, gone, gen, out>>

----------------------------------------------------------------------------
(* The sweeps as the consumer sees them: a generator object is made, pulled
   event by event (out = the events received so far) and dropped, at its
   end or before. *)

NewPawnGen(psize, delta, pos) ==
    [kind |-> "pawn", pc |-> "t0", raises |-> "", pos |-> pos, delta |-> delta,
     size |-> psize, xit |-> NewAxis, yit |-> NewAxis, x |-> None, y |-> None,
     previous |-> None]

\* cell_pos is set when the generator body starts (line 167); nothing reads
\* it before, so the record holds it from the beginning
NewPointGen(delta, pos) ==
    [kind |-> "point", pc |-> "t0", raises |-> "", pos |-> pos, delta |-> delta,
     xit |-> NewPointAxis, yit |-> NewPointAxis, x |-> None, y |-> None,
     cell_pos |-> <<modf_integer(pos[1]), modf_integer(pos[2])>>]

StartMovingPawn(psize, delta, pos) ==
    /\ gen.kind = "none"
    /\ gen' = NewPawnGen(psize, delta, pos)
    /\ out' = <<>>
    /\ UNCHANGED <<grid, tiles_seen, ret, live, gone>>

StartMovingPoint(delta, pos) ==
    /\ gen.kind = "none"
    /\ gen' = NewPointGen(delta, pos)
    /\ out' = <<>>
    /\ UNCHANGED <<grid, tiles_seen, ret, live, gone>>

\* next(generator): r = the generator after the call and the event it
\* yielded, if any
Resume(r) ==
    /\ gen' = r.g
    /\ out' = IF r.ev # None THEN Append(out, r.ev[1]) ELSE out

NextMovingPawn ==
    /\ gen.kind = "pawn"
    /\ gen.pc \in {"t0", "loop"}
    /\ Resume(collide_moving_pawn(grid, gen))
    /\ UNCHANGED <<grid, tiles_seen, ret, live, gone>>

NextMovingPoint ==
    /\ gen.kind = "point"
    /\ gen.pc \in {"t0", "loop"}
    /\ Resume(collide_moving_point(grid, gen))
    /\ UNCHANGED <<grid, tiles_seen, ret, live, gone>>

\* the consumer drops the generator (after its end, or abandoning it)
Drop ==
    /\ gen.kind # "none"
    /\ gen' = NoGen
    /\ out' = <<>>
    /\ UNCHANGED <<grid, tiles_seen, ret, live, gone>>

\* the inputs of the sweeps, in quarter units
MaxInitTiles == 1

SweepTiles == ScenarioTiles \cup OriginTiles

Starts == {Vec(56, 76), Vec(56, 80), Vec(58, 80), Vec(68, 88),
           Vec(8, 8), Vec(4, 4), Vec(0, -2), Vec(0, 8)}

Deltas == {Vec(12, 12), Vec(16, 0), Vec(4, 0), Vec(0, 0),
           Vec(-8, -8), Vec(-8, 0), Vec(0, -4), Vec(-6, -6)}

Sizes == {Vec(4, 4), Vec(2, 2), Vec(8, 8)}

\* the grid after add() of the tiles of S, one after the other
RECURSIVE GridOf(_)
GridOf(S) ==
    IF S = {} THEN EmptyGrid
    ELSE LET tile == CHOOSE tile \in S : TRUE
             rest == S \ {tile}
         IN  add_grid(GridOf(rest), rest, tile)

InitTileSets ==
    {S \in SUBSET SweepTiles : Cardinality(S) <= MaxInitTiles} \cup {ScenarioTiles}

----------------------------------------------------------------------------
(* What the sweeps are measured against: the exact geometry of the swept
   shape, computed in quarter units with rational times k / SweepDenominator.
   Every time at which an overlap begins or ends is a multiple of
   2 / SweepDenominator, so the samples k / SweepDenominator hit every
   overlap interval, the one-point ones included. *)

Quarter(v) == v \div (Q \div 4)

NonZero(n) == IF n = 0 THEN 1 ELSE Abs(n)

SweepDenominator(delta) == 2 * NonZero(Quarter(delta[1])) * NonZero(Quarter(delta[2]))

\* the half-open extent [p + d*k/D, p + d*k/D + s) meets the cell [c, c + 1)
ExtentMeetsCell(p, d, s, c, k, D) ==
    /\ p * D + d * k < (c + 4) * D
    /\ p * D + d * k + s * D > c * D

PawnOverlapsCell(psize, delta, pos, cell) ==
    LET D == SweepDenominator(delta)
    IN  \E k \in 0..D :
            /\ ExtentMeetsCell(Quarter(pos[1]), Quarter(delta[1]), Quarter(psize[1]),
                               Quarter(cell[1]), k, D)
            /\ ExtentMeetsCell(Quarter(pos[2]), Quarter(delta[2]), Quarter(psize[2]),
                               Quarter(cell[2]), k, D)

\* the point p + d*k/D is inside the cell [c, c + 1)
PointInsideCell(p, d, c, k, D) ==
    /\ c * D <= p * D + d * k
    /\ p * D + d * k < (c + 4) * D

PointTimesInCell(delta, pos, cell) ==
    LET D == SweepDenominator(delta)
    IN  {k \in 0..D :
            /\ PointInsideCell(Quarter(pos[1]), Quarter(delta[1]), Quarter(cell[1]), k, D)
            /\ PointInsideCell(Quarter(pos[2]), Quarter(delta[2]), Quarter(cell[2]), k, D)}

SetMin(S) == CHOOSE k \in S : \A j \in S : k <= j

\* the time, in units of 1 / SweepDenominator, from which the point is inside
\* the cell: a cell entered through an open side is first sampled inside
\* half a step later
PointEntryTime(delta, pos, cell) ==
    LET k == SetMin(PointTimesInCell(delta, pos, cell))
    IN  IF k % 2 = 1 THEN k - 1 ELSE k

OverlappedTiles ==
    {tile \in tiles_seen : PawnOverlapsCell(gen.size, gen.delta, gen.pos, tile_pos(tile))}

EnteredTiles ==
    {tile \in tiles_seen : PointTimesInCell(gen.delta, gen.pos, tile_pos(tile)) # {}}

ReportedTiles == UNION {ToSet(out[i].hits) : i \in 1..Len(out)}

\* t is k / D up to a thousandth
NearTime(t, k, D) == Abs(t * D - k * Q) <= D * (Q \div 1024)

Init ==
    /\ grid = EmptyGrid
    /\ tiles_seen = {}
    /\ ret = NoCall
    /\ live = {}
    /\ gone = {}
    /\ gen = NoGen
    /\ out = <<>>

Next ==
    \/ \E tile \in StoreTiles : Add(tile)
    \/ \E tile \in StoreTiles : Remove(tile)
    \/ \E tile \in StoreTiles : Contains(tile)

Spec == Init /\ [][Next]_vars

\* The sweeps over a level whose tiles were added before
SweepInit ==
    \E S \in InitTileSets :
        /\ grid = GridOf(S)
        /\ tiles_seen = S
        /\ ret = NoCall
        /\ live = S
        /\ gone = {}
        /\ gen = NoGen
        /\ out = <<>>

SweepNext ==
    \/ \E psize \in Sizes, delta \in Deltas, pos \in Starts : StartMovingPawn(psize, delta, pos)
    \/ \E delta \in Deltas, pos \in Starts : StartMovingPoint(delta, pos)
    \/ NextMovingPawn
    \/ NextMovingPoint
    \/ Drop

SpecSweep == SweepInit /\ [][SweepNext]_vars

----------------------------------------------------------------------------
(* The contract of the sweeps, over the events a consumer has received *)

PawnSweep  == gen.kind = "pawn"
PointSweep == gen.kind = "point"
Finished   == gen.kind # "none" /\ gen.pc = "done"

\* C1: the events of collide_moving_pawn and of collide_moving_point come in
\* non-decreasing order of t, the t = 0 start event included
C1_NonDecreasingT ==
    \A i \in 1..(Len(out) - 1) : out[i].t <= out[i + 1].t

\* a finished pawn sweep that yielded three events at three different times
C1_Witness ==
    /\ PawnSweep /\ Finished
    /\ Len(out) >= 3
    /\ out[1].t < out[2].t /\ out[2].t < out[3].t

\* C2: no two consecutive events of a sweep have the same set of hit tiles,
\* the pair of the t = 0 start event and the event after it included
C2_NoRepeatedHitSet ==
    \A i \in 1..(Len(out) - 1) : ToSet(out[i].hits) # ToSet(out[i + 1].hits)

\* C3: collide_moving_pawn is complete: when the sweep has run to its end,
\* every tile whose cell the moving half-open extent overlaps at some t in
\* [0, 1] is among the hits of at least one event
C3_Complete ==
    (PawnSweep /\ Finished) => OverlappedTiles \subseteq ReportedTiles

\* C4: collide_moving_pawn yields a t = 0 event iff collide_pawn at the
\* start position reports a tile; that event is (0, pos, hits) and comes
\* first; every other event has 0 < t <= 1
C4_StartEvent ==
    PawnSweep =>
        LET static == collide_pawn(grid, gen.size, gen.pos)
        IN  /\ (gen.pc # "t0" /\ static.tiles # <<>>) =>
                   /\ Len(out) >= 1
                   /\ out[1] = [t |-> 0, pos |-> gen.pos, hits |-> static.tiles]
            /\ \A i \in 1..Len(out) :
                   IF out[i].t = 0
                   THEN i = 1 /\ static.tiles # <<>>
                   ELSE 0 < out[i].t /\ out[i].t <= Q

\* C5: when no tile lies in a cell the swept shape overlaps at any t in
\* [0, 1] (the half-open extent of the pawn, the point itself for the point
\* sweep), the sweep yields no event
C5_NoTileNoEvent ==
    /\ (PawnSweep /\ OverlappedTiles = {}) => out = <<>>
    /\ (PointSweep /\ EnteredTiles = {}) => out = <<>>

\* C6: every event of either sweep reports the position pos + delta * t
C6_PositionAtT ==
    (PawnSweep \/ PointSweep) =>
        \A i \in 1..Len(out) :
            out[i].pos = VAdd(gen.pos, VScale(gen.delta, out[i].t))

\* C7: a point sweep run to its end has yielded exactly one event per
\* occupied cell the point is inside at some t in [0, 1], in order of entry,
\* each with the time at which the point enters that cell
C7_PointCells ==
    (PointSweep /\ Finished) =>
        /\ Len(out) = Cardinality(EnteredTiles)
        /\ ReportedTiles = EnteredTiles
        /\ \A i \in 1..Len(out) :
               \A tile \in ToSet(out[i].hits) \cap EnteredTiles :
                   NearTime(out[i].t,
                            PointEntryTime(gen.delta, gen.pos, tile_pos(tile)),
                            SweepDenominator(gen.delta))
        /\ \A i \in 1..(Len(out) - 1) : out[i].t <= out[i + 1].t

ScenarioA ==
    /\ tiles_seen = ScenarioTiles
    /\ PawnSweep
    /\ gen.size = Vec(4, 4) /\ gen.pos = Vec(56, 76) /\ gen.delta = Vec(12, 12)

\* C8: Scenario A: over the tiles (15,20), (16,20), (17,20), (15,21), (16,21),
\* (17,21) a pawn of size (1,1) at (14,19) moved by (3,3) yields exactly
\* three events: just after t = 0 hitting {(15,20)}, at about 1/3 hitting
\* {(15,20), (16,20), (15,21), (16,21)}, at about 2/3 hitting {(16,21), (17,21)}
C8_ScenarioA ==
    (ScenarioA /\ Finished) =>
        /\ Len(out) = 3
        /\ 0 < out[1].t /\ NearTime(out[1].t, 0, 3)
        /\ ToSet(out[1].hits) = {"t15_20"}
        /\ NearTime(out[2].t, 1, 3)
        /\ ToSet(out[2].hits) = {"t15_20", "t16_20", "t15_21", "t16_21"}
        /\ NearTime(out[3].t, 2, 3)
        /\ ToSet(out[3].hits) = {"t16_21", "t17_21"}

\* Scenario A has run to its end
C8_Witness == ScenarioA /\ Finished /\ Len(out) = 3

\* C9: after any sequence of add and remove calls, contains returns true
\* for every tile added and not removed since, false for every removed tile,
\* and its cross-check assertion does not fail
C9_Contains ==
    ret.op = "contains" =>
        /\ ret.raises = ""
        /\ ret.tile \in live => ret.value = TRUE
        /\ ret.tile \in gone => ret.value = FALSE

\* C10: in every state reachable by add and remove calls, successful or
\* failing, a tile is in tiles_seen iff it is in the tuple stored at its own
\* cell coordinate
C10_SeenIffStored ==
    \A tile \in StoreTiles :
        tile \in tiles_seen <=> InSeq(tile, grid_get(grid, tile_pos(tile)))

----------------------------------------------------------------------------
(* The contract of the tile store, over the calls made on it *)

\* the call that has just returned or raised
Returned(op, raises) == ret.op = op /\ ret.raises = raises

\* a tuple with every occurrence of tile deleted, the rest in order
Without(value, tile) == SelectSeq(value, LAMBDA other : other # tile)

\* the step is a remove(tile) that returned
RemoveReturns(tile) ==
    /\ ret'.op = "remove" /\ ret'.tile = tile /\ ret'.raises = ""
    /\ <<grid, tiles_seen, ret>> # <<grid', tiles_seen', ret'>>

\* C11: remove(tile) of a tracked tile leaves its cell's tuple equal to the
\* previous tuple with exactly that element deleted, the others kept in
\* order, wherever the tile stood in the tuple
C11_RemoveExactlyOne ==
    [][\A tile \in StoreTiles :
          RemoveReturns(tile) =>
              grid_get(grid', tile_pos(tile)) = Without(grid_get(grid, tile_pos(tile)), tile)]_vars

\* the cell tuples that hold the tile, as (key, index) pairs
Occurrences(tile) ==
    UNION {{<<key, i>> : i \in {j \in DOMAIN grid[key] : grid[key][j] = tile}} :
              key \in DOMAIN grid}

\* C12: add(tile) with a position outside the configured size fails with
\* OutOfBounds and leaves the tile neither in the membership set nor in any
\* cell tuple
C12_OutOfBoundsAddNoEffect ==
    Returned("add", "OutOfBounds") =>
        /\ ret.tile \notin tiles_seen
        /\ Occurrences(ret.tile) = {}

\* the step is an add(tile), returning or raising
AddStep(tile) ==
    /\ ret'.op = "add" /\ ret'.tile = tile
    /\ <<grid, tiles_seen, ret>> # <<grid', tiles_seen', ret'>>

\* C13: add(tile) of a tile already tracked fails with DuplicateTile and
\* changes neither the membership set nor any cell tuple
C13_DuplicateAdd ==
    [][\A tile \in StoreTiles :
          (AddStep(tile) /\ tile \in tiles_seen) =>
              /\ ret'.raises = "DuplicateTile"
              /\ grid' = grid
              /\ tiles_seen' = tiles_seen]_vars

\* an add of a tile that sits in its cell has just been refused
C13_Witness ==
    /\ Returned("add", "DuplicateTile")
    /\ ret.tile \in tiles_seen
    /\ Occurrences(ret.tile) # {}

\* C14: in every state reachable by add and remove calls, each tile occurs
\* at most once over all cell tuples
C14_NoTileTwice ==
    \A tile \in Tiles : Cardinality(Occurrences(tile)) <= 1

\* a cell shared by two tiles, after a remove has returned and an add has
\* been refused as a duplicate
C14_Witness ==
    /\ \E key \in DOMAIN grid : Len(grid[key]) >= 2
    /\ gone # {}
    /\ Returned("add", "DuplicateTile")

----------------------------------------------------------------------------
(* The static queries, asked of a level whose tiles were added before: ret
   holds the query that has just returned and what it returned. *)

CollidePawn(psize, pos) ==
    /\ ret' = [op |-> "collide_pawn", size |-> psize, pos |-> pos,
               path |-> collide_pawn_path(psize, pos)]
              @@ collide_pawn(grid, psize, pos)
    /\ UNCHANGED <<grid, tiles_seen, live, gone, gen, out>>

\* a collide_point that takes the tuple out of the cell it reads
CollidePoint_taking(pos) ==
    /\ ret' = [op |-> "collide_point", pos |-> pos, tiles |-> collide_point(grid, pos)]
    /\ grid' = [key \in DOMAIN grid |->
                   IF key = <<modf_integer(pos[1]), modf_integer(pos[2])>> THEN <<>>
                   ELSE grid[key]]
    /\ UNCHANGED <<tiles_seen, live, gone, gen, out>>

CollidePoint(pos) ==
    /\ ret' = [op |-> "collide_point", pos |-> pos, tiles |-> collide_point(grid, pos)]
    /\ UNCHANGED <<grid, tiles_seen, live, gone, gen, out>>

\* the levels asked: empty, with blocks at the origin corner, with the blocks
\* of the scenario, with a cell shared by a block and a monster
QueryTileSets ==
    {{}, {"tm1_m1"}, {"t0_0", "tm1_m1"}, ScenarioTiles, {"t15_20", "mon1"},
     {"t15_20", "mon1", "t16_21", "tm1_m1", "t0_0"}}

\* positions around the grid's origin corner and around the blocks of the
\* scenario, aligned and not; sizes below, at and above one cell
QueryXs == {-4, -2, 0, 56, 58, 60}
QueryYs == {-4, -2, 0, 80}
QueryPositions == {Vec(x4, y4) : x4 \in QueryXs, y4 \in QueryYs}
QuerySizes == {Vec(4, 4), Vec(2, 2), Vec(8, 8), Vec(6, 4), Vec(4, 2), Vec(0, 0)}

QueryInit ==
    \E S \in QueryTileSets :
        /\ grid = GridOf(S)
        /\ tiles_seen = S
        /\ ret = NoCall
        /\ live = S
        /\ gone = {}
        /\ gen = NoGen
        /\ out = <<>>

QueryNext ==
    \/ \E psize \in QuerySizes, pos \in QueryPositions : CollidePawn(psize, pos)
    \/ \E pos \in QueryPositions : CollidePoint(pos)

SpecQuery == QueryInit /\ [][QueryNext]_vars

\* the cell of a position: on each axis the largest whole number not above
\* the coordinate
CellOf(pos) == <<(pos[1] \div Q) * Q, (pos[2] \div Q) * Q>>

\* the tiles of the grid whose unit cell [cx, cx+1) x [cy, cy+1) meets the
\* half-open region [pos, pos + psize)
TilesMeeting(g, psize, pos) ==
    {tile \in Tiles :
        /\ InSeq(tile, grid_get(g, tile_pos(tile)))
        /\ \A axis \in 1..2 :
              /\ pos[axis] < tile_pos(tile)[axis] + Q
              /\ tile_pos(tile)[axis] < pos[axis] + psize[axis]}

\* C15: collide_pawn returns None, never an empty collection, when it found
\* no tile in the cells it checked, on each of its three paths
C15_NoneWhenNoHit ==
    ret.op = "collide_pawn" =>
        (lookup(grid, collide_pawn_cells(ret.size, ret.pos)) = <<>> =>
            ret.none)

\* C16: collide_pawn of a size (1,1) pawn aligned at the integer cell (x,y),
\* zero and negative coordinates included, returns exactly the tiles stored
\* at cell (x,y)
C16_AlignedUnitPawn ==
    (/\ ret.op = "collide_pawn"
     /\ ret.size = <<Q, Q>>
     /\ aligned(ret.pos[1]) /\ aligned(ret.pos[2])) =>
        ret.tiles = grid_get(grid, ret.pos)

\* C17: for every position and every size > 0 in both axes, collide_pawn
\* reports exactly the tiles whose unit cell meets [pos, pos + size)
C17_ExactlyMeetingCells ==
    (/\ ret.op = "collide_pawn"
     /\ ret.size[1] > 0 /\ ret.size[2] > 0) =>
        ToSet(ret.tiles) = TilesMeeting(grid, ret.size, ret.pos)

\* C18: collide_point(pos) returns the tuple stored at cell floor(pos), for
\* negative non-integer coordinates too
C18_PointFloorCell ==
    ret.op = "collide_point" =>
        ret.tiles = grid_get(grid, CellOf(ret.pos))

\* the position lies inside the grid's bounds
InsideGrid(pos) ==
    \A axis \in 1..2 : upper_left[axis] <= pos[axis] /\ pos[axis] < lower_right[axis]

\* C19: no sweep started inside the grid's bounds, by a point or by a pawn of
\* non-negative size, with any delta, ends in an assertion failure or another
\* exception
C19_NoQueryFails ==
    (/\ gen.kind # "none"
     /\ InsideGrid(gen.pos)
     /\ PawnSweep => (gen.size[1] >= 0 /\ gen.size[2] >= 0)) =>
        gen.pc # "failed"

----------------------------------------------------------------------------
(* The shot of main.py: each frame animate_pos sweeps the shot as a moving
   point and, event by event, runs the handlers of the tiles hit; the
   handler of a Monster removes it from the grid. *)

Monsters == {"mon1", "mon2"}

\* Monster.on_shot: dead is never set, so every call reaches remove(self);
\* st = the grid's state and the exception on its way out, "" for none
on_shot(st, tile) ==
    [grid       |-> remove_grid(st.grid, st.tiles_seen, tile),
     tiles_seen |-> remove_tiles_seen(st.tiles_seen, tile),
     ret        |-> [op |-> "remove", tile |-> tile,
                     raises |-> remove_raises(st.grid, st.tiles_seen, tile), value |-> FALSE],
     live       |-> IF remove_raises(st.grid, st.tiles_seen, tile) = ""
                    THEN st.live \ {tile} ELSE st.live,
     gone       |-> IF remove_raises(st.grid, st.tiles_seen, tile) = ""
                    THEN st.gone \cup {tile} ELSE st.gone,
     raises     |-> remove_raises(st.grid, st.tiles_seen, tile)]

\* the body of "for obj in hits", until an exception leaves it
RECURSIVE on_hits(_, _)
on_hits(st, hits) ==
    IF hits = <<>> \/ st.raises # "" THEN st
    ELSE on_hits(IF Head(hits) \in Monsters THEN on_shot(st, Head(hits)) ELSE st,
                 Tail(hits))

\* the hits of the event a next() gave, none at the end of the stream
event_hits(r) == IF r.ev # None THEN r.ev[1].hits ELSE <<>>

\* after the handlers: an exception of theirs unwinds the loop and the
\* generator is left behind
ShotHandled(r, st) ==
    /\ gen' = IF st.raises # "" THEN NoGen ELSE r.g
    /\ out' = IF st.raises # "" THEN <<>>
              ELSE IF r.ev # None THEN Append(out, r.ev[1]) ELSE out
    /\ grid' = st.grid
    /\ tiles_seen' = st.tiles_seen
    /\ ret' = st.ret
    /\ live' = st.live
    /\ gone' = st.gone

ShotBody(r) ==
    ShotHandled(r, on_hits([grid |-> grid, tiles_seen |-> tiles_seen, ret |-> ret,
                            live |-> live, gone |-> gone, raises |-> ""],
                           event_hits(r)))

\* collisions = level.collision_grid.collide_moving_point(pos, delta)
ShotFrame(delta, pos) == StartMovingPoint(delta, pos)

\* one turn of "for t, loc, hits in collisions": next() and the loop's body
ShotNext ==
    /\ gen.kind = "point"
    /\ gen.pc \in {"t0", "loop"}
    /\ ShotBody(collide_moving_point(grid, gen))

\* the for loop is over: the stream ended or raised
ShotFrameEnd ==
    /\ gen.kind = "point"
    /\ gen.pc \in {"done", "failed"}
    /\ Drop

\* the shot starts at the player's centre and flies along a row
ShotStarts == {Vec(58, 82), Vec(54, 82), Vec(70, 82)}
ShotDeltas == {Vec(4, 0), Vec(16, 0), Vec(-8, 0)}

ShotTileSets ==
    {{"mon1"}, {"mon1", "t16_20"}, {"mon1", "mon2"}, {"t15_20", "mon1", "mon2"},
     {"mon1", "t17_20"}, ScenarioTiles}

ShotInit ==
    \E S \in ShotTileSets :
        /\ grid = GridOf(S)
        /\ tiles_seen = S
        /\ ret = NoCall
        /\ live = S
        /\ gone = {}
        /\ gen = NoGen
        /\ out = <<>>

ShotStep ==
    \/ \E delta \in ShotDeltas, pos \in ShotStarts : ShotFrame(delta, pos)
    \/ ShotNext
    \/ ShotFrameEnd

SpecShot == ShotInit /\ [][ShotStep]_vars

\* the stream has been made and is neither exhausted nor abandoned
StreamOpen == gen.kind # "none" /\ gen.pc \in {"t0", "loop"}

\* C20: while the event stream of a sweep is being consumed, no add and no
\* remove is performed on the grid: the handlers run for the hits leave the
\* membership set and every cell tuple as they were
C20_NoMutationWhileConsumed ==
    [][(StreamOpen /\ StreamOpen') => (grid' = grid /\ tiles_seen' = tiles_seen)]_vars

----------------------------------------------------------------------------
(* The four queries together, asked in any order of one level: static
   queries between the pulls of a sweep, sweeps run to their end or dropped
   after any number of events.  self.grid is a defaultdict: a lookup of a
   cell that holds nothing leaves the empty tuple there, which grid_get does
   not tell from a cell never looked up. *)

ReadSizes     == {Vec(4, 4), Vec(8, 8)}
ReadStarts    == {Vec(56, 76), Vec(58, 80), Vec(0, -2)}
ReadDeltas    == {Vec(12, 12), Vec(0, 0), Vec(-8, 0)}
ReadPositions == {Vec(60, 80), Vec(58, 80), Vec(-2, -2)}

ReadNext ==
    \/ \E psize \in ReadSizes, pos \in ReadPositions : CollidePawn(psize, pos)
    \/ \E pos \in ReadPositions : CollidePoint(pos)
    \/ \E psize \in ReadSizes, delta \in ReadDeltas, pos \in ReadStarts :
           StartMovingPawn(psize, delta, pos)
    \/ \E delta \in ReadDeltas, pos \in ReadStarts : StartMovingPoint(delta, pos)
    \/ NextMovingPawn
    \/ NextMovingPoint
    \/ Drop

SpecReads == QueryInit /\ [][ReadNext]_vars

C22_SweepsReachTheirEnd ==
    /\ (gen.kind # "none" /\ ~StreamOpen) => Finished
    /\ Finished => (gen.xit.st = "end" /\ gen.yit.st = "end")

\* C23: in collide_moving_pawn, whenever the x-axis and the y-axis generator
\* both have a pending event with the same t, the two events carry the same
\* position, so the assertion x[1] == y[1] of the merge does not fail
C23_MergePositionsAgree ==
    (/\ PawnSweep
     /\ gen.x # None /\ gen.y # None
     /\ gen.x[1].t = gen.y[1].t) =>
        gen.x[1].pos = gen.y[1].pos

\* what the loop finds pending on the two axes when it is entered
PendingX == pull_axis(grid, gen, "x", gen.xit, gen.x)
PendingY == pull_axis(grid, gen, "y", gen.yit, gen.y)

\* the next() about to be made goes into the merge loop, where both axes
\* have an event pending, and for the same t
SimultaneousPending ==
    /\ PawnSweep
    /\ \/ gen.pc = "loop"
       \/ gen.pc = "t0" /\ collide_pawn(grid, gen.size, gen.pos).tiles = <<>>
    /\ PendingX.raises = "" /\ PendingY.raises = ""
    /\ PendingX.ev # None /\ PendingY.ev # None
    /\ PendingX.ev[1].t = PendingY.ev[1].t

\* C24: when the x-axis and the y-axis stream produce events at the same t,
\* exactly one event is emitted for that t, with the union of the two hit sets
C24_SimultaneousMerged ==
    [][(SimultaneousPending /\ gen' # gen /\ PawnSweep') =>
          /\ Len(out') = Len(out) + 1
          /\ out'[Len(out')].t = PendingX.ev[1].t
          /\ ToSet(out'[Len(out')].hits)
                 = ToSet(PendingX.ev[1].hits) \cup ToSet(PendingY.ev[1].hits)]_vars

\* what the loop of collide_moving_point finds pending on the two axes
PointPendingX == pull_point_axis(gen.pos[1], gen.delta[1], <<Q, 0>>, gen.xit, gen.x)
PointPendingY == pull_point_axis(gen.pos[2], gen.delta[2], <<0, Q>>, gen.yit, gen.y)

\* the x crossing and the y crossing are pending for the same t
PointSimultaneous ==
    /\ PointSweep /\ StreamOpen
    /\ PointPendingX.raises = "" /\ PointPendingY.raises = ""
    /\ PointPendingX.ev # None /\ PointPendingY.ev # None
    /\ PointPendingX.ev[1].t = PointPendingY.ev[1].t

\* the cell one step along both axes from the current one
DiagonalCell == VAdd(gen.cell_pos, VAdd(PointPendingX.ev[1].d, PointPendingY.ev[1].d))

\* C25: in collide_moving_point, when the x crossing and the y crossing
\* happen at the same t, one merge step takes the cell coordinate to the
\* diagonal cell and only that cell is looked up for this t: its tiles, if
\* any, make the one event of this t, and the two side cells make none
C25_DiagonalStep ==
    [][(PointSimultaneous /\ gen' # gen /\ PointSweep') =>
          /\ grid_get(grid, DiagonalCell) # <<>> =>
                 /\ Len(out') = Len(out) + 1
                 /\ out'[Len(out')].t = PointPendingX.ev[1].t
                 /\ gen'.cell_pos = DiagonalCell
                 /\ gen'.x = None /\ gen'.y = None
          /\ (Len(out') = Len(out) + 1 /\ out'[Len(out')].t = PointPendingX.ev[1].t) =>
                 out'[Len(out')].hits = grid_get(grid, DiagonalCell)]_vars

\* start (14,19), delta (3,3) over the blocks of the scenario: the sweep has
\* ended having reported (15,20) and (16,21) only
C25_Witness ==
    /\ PointSweep /\ Finished
    /\ tiles_seen = ScenarioTiles
    /\ gen.pos = Vec(56, 76) /\ gen.delta = Vec(12, 12)
    /\ Len(out) = 2
    /\ out[1].hits = <<"t15_20">> /\ out[2].hits = <<"t16_21">>
    /\ out[1].pos = Vec(60, 80) /\ out[2].pos = Vec(64, 84)

\* C26: an axis whose delta component is zero contributes no crossing: its
\* generator never gets to a crossing, the coordinate of that axis stays
\* that of the start in every event and in the cell of a moving point; with
\* delta = (0,0) either sweep yields at most one event, and that one has t = 0
C26_ZeroDeltaAxis ==
    (PawnSweep \/ PointSweep) =>
        /\ \A axis \in 1..2 :
               gen.delta[axis] = 0 =>
                   /\ (IF axis = 1 THEN gen.xit ELSE gen.yit).st # "run"
                   /\ \A i \in 1..Len(out) : out[i].pos[axis] = gen.pos[axis]
                   /\ PointSweep => gen.cell_pos[axis] = modf_integer(gen.pos[axis])
        /\ gen.delta = <<0, 0>> =>
               /\ Len(out) <= 1
               /\ \A i \in 1..Len(out) : out[i].t = 0

\* a pawn sweep with delta = (0,0) has ended with its one event, of t = 0
C26_Witness ==
    /\ PawnSweep /\ Finished
    /\ gen.delta = <<0, 0>>
    /\ Len(out) = 1 /\ out[1].t = 0

----------------------------------------------------------------------------
(* The life of a tile: added, looked up by collide_point, removed, added
   again, on a grid that starts empty. *)

LifePositions == {Vec(66, 80), Vec(64, 80), Vec(60, 82), Vec(-8, -8)}

LifeNext ==
    \/ \E tile \in LifeTiles : Add(tile)
    \/ \E tile \in LifeTiles : Remove(tile)
    \/ \E tile \in LifeTiles : Contains(tile)
    \/ \E pos \in LifePositions : CollidePoint(pos)

SpecLife == Init /\ [][LifeNext]_vars

\* C27: a successful add(tile) stores the tile under the cell
\* floor(tile.position), after the tiles already there and leaving every
\* other cell as it was, so that collide_point(p) returns a tuple containing
\* the tile for every p inside that cell, for integer and fractional tile
\* positions
C27_AddUnderFloorCell ==
    /\ Returned("add", "") =>
           /\ grid_get(grid, CellOf(tile_pos(ret.tile))) # <<>>
           /\ grid_get(grid, CellOf(tile_pos(ret.tile)))[
                  Len(grid_get(grid, CellOf(tile_pos(ret.tile))))] = ret.tile
    /\ ret.op = "collide_point" =>
           \A tile \in live :
               CellOf(tile_pos(tile)) = CellOf(ret.pos) => InSeq(tile, ret.tiles)

\* C28: a tile that was added and then removed can be added again: the
\* second add is not refused as a duplicate
C28_AddAgainAfterRemove ==
    ~(Returned("add", "DuplicateTile") /\ ret.tile \in gone)

\* C29: every tile stored in the grid lies inside the configured bounds,
\* upper_left <= position < lower_right on both axes
C29_StoredInsideBounds ==
    \A tile \in Tiles : Occurrences(tile) # {} => InsideGrid(tile_pos(tile))

\* the general rule: the tiles of the block of
\* (ceil(size.x) + [x unaligned]) x (ceil(size.y) + [y unaligned]) cells
\* that starts at floor(pos)
GeneralRule(g, psize, pos) ==
    lookup(g, cell_block(CellOf(pos),
                         ceil(psize[1]) + (IF aligned(pos[1]) THEN 0 ELSE 1),
                         ceil(psize[2]) + (IF aligned(pos[2]) THEN 0 ELSE 1)))

\* C30: for every input taken by the fast path or by the 1x1 path of
\* collide_pawn, sizes of 0 and negative positions included, the set of
\* tiles reported equals the set of the general cell-block rule
C30_PathsAgree ==
    (ret.op = "collide_pawn" /\ ret.path \in {"fast", "1x1"}) =>
        ToSet(ret.tiles) = ToSet(GeneralRule(grid, ret.size, ret.pos))

====
